---- MODULE Spec2Model ----
(***************************************************************************)
(* koda: the two container types Maybe (Just / Nothing) and Result         *)
(* (Ok / Err) of src/koda/maybe.py and src/koda/result.py.                 *)
(*                                                                         *)
(* Every method is an operator that returns an outcome: either a returned  *)
(* object together with the number of times the method invoked a callback, *)
(* or a raised exception.  Three specifications drive the methods:         *)
(*   Spec          chains of method calls on one current container,        *)
(*   SpecApply     chains of Result.apply calls,                           *)
(*   SpecSingleton threads calling the Nothing() constructor.              *)
(***************************************************************************)
EXTENDS Integers, Sequences, FiniteSets

\* Payload values are the ints 0..MaxVal.
MaxVal == 2

\* The call-counting probe is capped at MaxCalls invocations.
MaxCalls == 3

\* Longest chain of apply calls of SpecApply.
MaxChain == 3

\* Number of threads that call Nothing() after the module is imported.
NumThreads == 3

\* An int object.
PyInt(n) == [tag |-> "int", val |-> n]

Val == {PyInt(n) : n \in 0 .. MaxVal}

-----------------------------------------------------------------------------
(* Objects *)

\* An instance of class Nothing; id is the object's identity.
NothingObj(i) == [tag |-> "Nothing", id |-> i]

\* The module-level instance: the first Nothing object ever allocated.
nothing == NothingObj(1)

Just(v) == [tag |-> "Just", val |-> v]

Ok(v) == [tag |-> "Ok", val |-> v]

Err(e) == [tag |-> "Err", val |-> e]

\* Optional's absent marker.
None == [tag |-> "None"]

isinstance(obj, cls) == obj.tag = cls

\* The == of two objects: the dataclass-generated __eq__ compares the class
\* and then the fields with ==; Nothing has no __eq__ and compares by identity.
RECURSIVE PyEq(_, _)
PyEq(a, b) ==
    /\ a.tag = b.tag
    /\ CASE a.tag = "Nothing" -> a.id = b.id
         [] a.tag = "None" -> TRUE
         [] a.tag = "int" -> a.val = b.val
         [] OTHER -> PyEq(a.val, b.val)

-----------------------------------------------------------------------------
(* Outcomes of a call *)

Return(x, n) == [kind |-> "return", val |-> x, calls |-> n]

Raise(exc, msg) == [kind |-> "raise", exc |-> exc, msg |-> msg, calls |-> 0]

\* The messages, word by word.
NothingMsg == <<"Value", "missing", "in", "a", "Nothing", "variant.">>

ErrMsg == <<"Value", "missing", "in", "an", "Err", "variant.">>

-----------------------------------------------------------------------------
(* class Nothing *)

\* Mutant: get() on Nothing hands back None instead of raising.
Nothing_get_returnsNone(self) == Return(None, 0)

Nothing_get(self) == Raise("ValueError", NothingMsg)

Nothing_get_or_else(self, fallback) == Return(fallback, 0)

Nothing_map(self, fn) == Return(self, 0)

Nothing_flat_map(self, fn) == Return(self, 0)

Nothing_apply(self, container) == Return(self, 0)

Nothing_to_optional(self) == Return(None, 0)

Nothing_to_result(self, fail_obj) == Return(Err(fail_obj), 0)

Nothing_invert(self) == Nothing_get(self)

(* class Just *)

Just_get(self) == Return(self.val, 0)

Just_get_or_else(self, fallback) == Return(self.val, 0)

\* Mutant: map re-wraps the value without applying fn to it.
Just_map_skipsFn(self, fn) == Return(Just(self.val), 1)

Just_map(self, fn) == Return(Just(fn[self.val]), 1)

\* Mutant: flat_map wraps the callback's result like map does.
Just_flat_map_wraps(self, fn) == Return(Just(fn[self.val]), 1)

Just_flat_map(self, fn) == Return(fn[self.val], 1)

\* Mutant: the isinstance check is missing, the payload is read from any container.
Just_apply_noCheck(self, container) ==
    IF "val" \in DOMAIN container
    THEN Return(Just(container.val[self.val]), 1)
    ELSE Raise("AttributeError", <<"val">>)

\* Mutant: an empty container leaves the receiver as it is.
Just_apply_keepsSelf(self, container) ==
    IF isinstance(container, "Nothing")
    THEN Return(self, 0)
    ELSE Return(Just(container.val[self.val]), 1)

Just_apply(self, container) ==
    IF isinstance(container, "Nothing")
    THEN Return(nothing, 0)
    ELSE IF "val" \in DOMAIN container
         THEN Return(Just(container.val[self.val]), 1)
         ELSE Raise("AttributeError", <<"val">>)

Just_to_optional(self) == Return(self.val, 0)

Just_to_result(self, fail_obj) == Return(Ok(self.val), 0)

(* class Err *)

\* Mutant: the container's error replaces the receiver's (last error wins).
Err_apply_lastErrWins(self, container) ==
    IF isinstance(container, "Err") THEN Return(container, 0) ELSE Return(self, 0)

Err_apply(self, container) == Return(self, 0)

Err_get(self) == Raise("ValueError", ErrMsg)

Err_get_or_else(self, fallback) == Return(fallback, 0)

\* Mutant: flat_map on Err invokes the callback on the error.
Err_flat_map_invokes(self, fn) == Return(fn[self.val], 1)

Err_flat_map(self, fn) == Return(self, 0)

Err_flat_map_err(self, fn) == Return(fn[self.val], 1)

Err_map(self, fn) == Return(self, 0)

Err_map_err(self, fn) == Return(Err(fn[self.val]), 1)

Err_swap(self) == Return(Ok(self.val), 0)

Err_to_optional(self) == Return(None, 0)

Err_to_maybe(self) == Return(nothing, 0)

Err_invert(self) == Err_get(self)

(* class Ok *)

\* Mutant: with an Err container the receiver is returned, as the docstring
\* of Result.apply words it.
Ok_apply_keepsSelf(self, container) ==
    IF isinstance(container, "Ok")
    THEN Return(Ok(container.val[self.val]), 1)
    ELSE IF isinstance(container, "Err")
         THEN Return(self, 0)
         ELSE Raise("AssertionError", <<>>)

Ok_apply(self, container) ==
    IF isinstance(container, "Ok")
    THEN Return(Ok(container.val[self.val]), 1)
    ELSE IF isinstance(container, "Err")
         THEN Return(container, 0)
         ELSE Raise("AssertionError", <<>>)

Ok_get(self) == Return(self.val, 0)

Ok_get_or_else(self, fallback) == Return(self.val, 0)

Ok_flat_map(self, fn) == Return(fn[self.val], 1)

Ok_flat_map_err(self, fn) == Return(self, 0)

Ok_map(self, fn) == Return(Ok(fn[self.val]), 1)

Ok_map_err(self, fn) == Return(self, 0)

Ok_swap(self) == Return(Err(self.val), 0)

Ok_to_optional(self) == Return(self.val, 0)

\* Mutant: to_maybe drops the value.
Ok_to_maybe_dropsValue(self) == Return(nothing, 0)

Ok_to_maybe(self) == Return(Just(self.val), 0)

-----------------------------------------------------------------------------
(* Method lookup on the class of the receiver *)

IsMaybe(x) == x.tag \in {"Just", "Nothing"}

IsResult(x) == x.tag \in {"Ok", "Err"}

get(self) ==
    CASE self.tag = "Just" -> Just_get(self)
      [] self.tag = "Nothing" -> Nothing_get(self)
      [] self.tag = "Ok" -> Ok_get(self)
      [] self.tag = "Err" -> Err_get(self)

get_or_else(self, fallback) ==
    CASE self.tag = "Just" -> Just_get_or_else(self, fallback)
      [] self.tag = "Nothing" -> Nothing_get_or_else(self, fallback)
      [] self.tag = "Ok" -> Ok_get_or_else(self, fallback)
      [] self.tag = "Err" -> Err_get_or_else(self, fallback)

map(self, fn) ==
    CASE self.tag = "Just" -> Just_map(self, fn)
      [] self.tag = "Nothing" -> Nothing_map(self, fn)
      [] self.tag = "Ok" -> Ok_map(self, fn)
      [] self.tag = "Err" -> Err_map(self, fn)

flat_map(self, fn) ==
    CASE self.tag = "Just" -> Just_flat_map(self, fn)
      [] self.tag = "Nothing" -> Nothing_flat_map(self, fn)
      [] self.tag = "Ok" -> Ok_flat_map(self, fn)
      [] self.tag = "Err" -> Err_flat_map(self, fn)

apply(self, container) ==
    CASE self.tag = "Just" -> Just_apply(self, container)
      [] self.tag = "Nothing" -> Nothing_apply(self, container)
      [] self.tag = "Ok" -> Ok_apply(self, container)
      [] self.tag = "Err" -> Err_apply(self, container)

to_optional(self) ==
    CASE self.tag = "Just" -> Just_to_optional(self)
      [] self.tag = "Nothing" -> Nothing_to_optional(self)
      [] self.tag = "Ok" -> Ok_to_optional(self)
      [] self.tag = "Err" -> Err_to_optional(self)

to_result(self, fail_obj) ==
    CASE self.tag = "Just" -> Just_to_result(self, fail_obj)
      [] self.tag = "Nothing" -> Nothing_to_result(self, fail_obj)

map_err(self, fn) ==
    CASE self.tag = "Ok" -> Ok_map_err(self, fn)
      [] self.tag = "Err" -> Err_map_err(self, fn)

flat_map_err(self, fn) ==
    CASE self.tag = "Ok" -> Ok_flat_map_err(self, fn)
      [] self.tag = "Err" -> Err_flat_map_err(self, fn)

swap(self) ==
    CASE self.tag = "Ok" -> Ok_swap(self)
      [] self.tag = "Err" -> Err_swap(self)

to_maybe(self) ==
    CASE self.tag = "Ok" -> Ok_to_maybe(self)
      [] self.tag = "Err" -> Err_to_maybe(self)

\* self >> other
rshift(self, other) == map(self, other)

\* self | other
or(self, other) == map_err(self, other)

\* ~self: Nothing and Err override __invert__, the base classes define it.
invert(self) ==
    CASE self.tag = "Nothing" -> Nothing_invert(self)
      [] self.tag = "Err" -> Err_invert(self)
      [] OTHER -> get(self)

-----------------------------------------------------------------------------
(* Inputs *)

identity == [x \in Val |-> x]

succ == [x \in Val |-> PyInt((x.val + 1) % (MaxVal + 1))]

zero == [x \in Val |-> PyInt(0)]

\* compose(g, f) is the function x -> g(f(x)).
compose(g, f) == [x \in Val |-> g[f[x]]]

\* Callbacks of map, map_err, >> and |, and the payloads of function containers.
Fns == {identity, succ, zero}

\* Callbacks of Maybe.flat_map.
MaybeFns ==
    {[x \in Val |-> Just(succ[x])],
     [x \in Val |-> nothing],
     [x \in Val |-> IF x = PyInt(0) THEN nothing ELSE Just(x)]}

\* Callbacks of Result.flat_map and Result.flat_map_err.
ResultFns ==
    {[x \in Val |-> Ok(succ[x])],
     [x \in Val |-> Err(succ[x])],
     [x \in Val |-> IF x = PyInt(0) THEN Err(x) ELSE Ok(x)]}

Maybes == {nothing} \cup {Just(v) : v \in Val}

Results == {Ok(v) : v \in Val} \cup {Err(e) : e \in Val}

\* Containers handed to apply: they hold functions.
MaybeContainers == {nothing} \cup {Just(f) : f \in Fns}

ResultContainers == {Ok(f) : f \in Fns} \cup {Err(e) : e \in Val}

NoArg == [tag |-> "NoArg"]

-----------------------------------------------------------------------------
(* State *)

VARIABLES
    cur,        \* Spec: the container the next method is called on
    calls,      \* Spec: the call-counting probe, callbacks invoked so far
    hist,       \* Spec: the last two calls, [op, recv, arg, out]
    r0,         \* SpecApply: the receiver the chain of applies started from
    conts,      \* SpecApply: the containers applied so far, in order
    acur,       \* SpecApply: the value of r0.apply(c1)...apply(cn)
    acalls,     \* SpecApply: container functions invoked so far
    loaded,     \* SpecSingleton: the import of koda.maybe has finished
    instance,   \* SpecSingleton: Nothing._instance, 0 while the attribute is unset
    heap,       \* SpecSingleton: number of Nothing objects allocated so far
    pc,         \* SpecSingleton: where each caller of Nothing() is
    local,      \* SpecSingleton: the object a caller has allocated and not yet stored
    got,        \* SpecSingleton: the object the last Nothing() of a caller returned
    used,       \* SpecSingleton: the object a method call of a caller returned
    overlap     \* SpecSingleton: two callers have been inside __new__ at once

chainVars == <<cur, calls, hist>>

applyVars == <<r0, conts, acur, acalls>>

singletonVars == <<loaded, instance, heap, pc, local, got, used, overlap>>

vars == <<chainVars, applyVars, singletonVars>>

\* The callers of Nothing(): 0 is the import of koda.maybe itself.
Importer == 0

Threads == 1 .. NumThreads

Callers == {Importer} \cup Threads

ChainIdle == cur = nothing /\ calls = 0 /\ hist = <<>>

ApplyIdle == r0 = Ok(PyInt(0)) /\ conts = <<>> /\ acur = Ok(PyInt(0)) /\ acalls = 0

SingletonIdle ==
    /\ loaded = TRUE
    /\ instance = 1
    /\ heap = 1
    /\ pc = [t \in Callers |-> "done"]
    /\ local = [t \in Callers |-> 0]
    /\ got = [t \in Callers |-> 0]
    /\ used = [t \in Callers |-> 0]
    /\ overlap = FALSE

-----------------------------------------------------------------------------
(* Spec: chains of method calls *)

Init ==
    /\ cur \in Maybes \cup Results
    /\ calls = 0
    /\ hist = <<>>
    /\ ApplyIdle
    /\ SingletonIdle

Push(h, e) == IF Len(h) < 2 THEN Append(h, e) ELSE <<h[2], e>>

IsContainer(x) == IsMaybe(x) \/ IsResult(x)

\* One call cur.op(arg) with outcome o.  A returned container is what the
\* chain goes on with; a plain value, None or an exception leaves cur.
Call(op, arg, o) ==
    /\ calls + o.calls <= MaxCalls
    /\ calls' = calls + o.calls
    /\ hist' = Push(hist, [op |-> op, recv |-> cur, arg |-> arg, out |-> o])
    /\ cur' = IF o.kind = "return" /\ IsContainer(o.val) THEN o.val ELSE cur
    /\ UNCHANGED <<applyVars, singletonVars>>

Get == Call("get", NoArg, get(cur))

Invert == Call("invert", NoArg, invert(cur))

GetOrElse == \E v \in Val : Call("get_or_else", v, get_or_else(cur, v))

Map == \E fn \in Fns : Call("map", fn, map(cur, fn))

RShift == \E fn \in Fns : Call("rshift", fn, rshift(cur, fn))

FlatMap ==
    \E fn \in (IF IsMaybe(cur) THEN MaybeFns ELSE ResultFns) :
        Call("flat_map", fn, flat_map(cur, fn))

Apply ==
    \E c \in (IF IsMaybe(cur) THEN MaybeContainers ELSE ResultContainers) :
        Call("apply", c, apply(cur, c))

ToOptional == Call("to_optional", NoArg, to_optional(cur))

ToResult ==
    /\ IsMaybe(cur)
    /\ \E e \in Val : Call("to_result", e, to_result(cur, e))

MapErr ==
    /\ IsResult(cur)
    /\ \E fn \in Fns : Call("map_err", fn, map_err(cur, fn))

Or ==
    /\ IsResult(cur)
    /\ \E fn \in Fns : Call("or", fn, or(cur, fn))

FlatMapErr ==
    /\ IsResult(cur)
    /\ \E fn \in ResultFns : Call("flat_map_err", fn, flat_map_err(cur, fn))

Swap == IsResult(cur) /\ Call("swap", NoArg, swap(cur))

ToMaybe == IsResult(cur) /\ Call("to_maybe", NoArg, to_maybe(cur))

Next ==
    \/ Get
    \/ Invert
    \/ GetOrElse
    \/ Map
    \/ RShift
    \/ FlatMap
    \/ Apply
    \/ ToOptional
    \/ ToResult
    \/ MapErr
    \/ Or
    \/ FlatMapErr
    \/ Swap
    \/ ToMaybe

Spec == Init /\ [][Next]_vars

-----------------------------------------------------------------------------
(* Properties of Spec *)

\* The calls the history window holds.
Entries == {hist[i] : i \in DOMAIN hist}

Returned(e, x, n) == e.out.kind = "return" /\ e.out.calls = n /\ PyEq(e.out.val, x)

\* The chain continued from the first call of the window to the second.
Chained == Len(hist) = 2 /\ hist[1].out.kind = "return" /\ hist[2].recv = hist[1].out.val

Words(msg) == {msg[i] : i \in DOMAIN msg}

GetFamily == {"get", "invert"}

\* What get() and ~x do, with the exception class left open.
GetContract(exc) ==
    \A e \in Entries :
        e.op \in GetFamily =>
            /\ e.recv.tag \in {"Just", "Ok"}
                   => /\ e.out.kind = "return"
                      /\ e.out.val = e.recv.val
            /\ e.recv.tag \in {"Nothing", "Err"}
                   => /\ e.out.kind = "raise"
                      /\ e.out.exc = exc
                      /\ e.recv.tag \in Words(e.out.msg)

\* C2 (as stated): get() and ~x return v on Just(v) and Ok(v), and on Nothing
\* and Err(e) fail with the error kind EmptyValueError, whose message names
\* the variant.
C2_EmptyValueError == GetContract("EmptyValueError")

\* C2 (amended): get() and ~x return v on Just(v) and Ok(v), and on Nothing
\* and Err(e) raise the built-in ValueError, whose message names the variant;
\* they never return a value there.
C2_ValueError == GetContract("ValueError")

\* get() and then ~x were evaluated on an Err, and both raised.
C2_Witness ==
    /\ Len(hist) = 2
    /\ hist[1].op = "get" /\ hist[1].recv.tag = "Err" /\ hist[1].out.kind = "raise"
    /\ hist[2].op = "invert" /\ hist[2].recv.tag = "Err" /\ hist[2].out.kind = "raise"

\* C3: only get() (and ~x) can fail, and only on Nothing / Err: every other
\* operation, given arguments of the two closed variants and callbacks that
\* do not fail, returns.
C3_OnlyGetFails ==
    \A e \in Entries :
        /\ e.op \notin GetFamily => e.out.kind = "return"
        /\ e.out.kind = "raise" => e.recv.tag \in {"Nothing", "Err"}

\* swap turned an Err into an Ok, and Ok.apply then took its Err branch, the
\* last one before the assert.
C3_Witness ==
    /\ Chained
    /\ hist[1].op = "swap" /\ hist[1].recv.tag = "Err"
    /\ hist[2].op = "apply" /\ hist[2].recv.tag = "Ok" /\ hist[2].arg.tag = "Err"
    /\ hist[2].out.kind = "return"

ValueSide == {"map", "flat_map", "rshift"}

ErrorSide == {"map_err", "flat_map_err", "or"}

\* The step is a call of one of ops.
Calling(ops) == hist' # <<>> /\ hist' # hist /\ hist'[Len(hist')].op \in ops

\* C4: short-circuit: on Nothing and on Err(e), map / flat_map / >> return
\* the same object and leave the call counter alone; on Ok(v), map_err /
\* flat_map_err / | do.
C4_ShortCircuit ==
    [][/\ (cur.tag \in {"Nothing", "Err"} /\ Calling(ValueSide))
              => cur' = cur /\ calls' = calls /\ hist'[Len(hist')].out = Return(cur, 0)
       /\ (cur.tag = "Ok" /\ Calling(ErrorSide))
              => cur' = cur /\ calls' = calls /\ hist'[Len(hist')].out = Return(cur, 0)
      ]_vars

\* Two value-side calls in a row on an Err, after a callback had been counted.
C4_Witness ==
    /\ Chained
    /\ calls > 0
    /\ hist[1].op = "flat_map" /\ hist[1].recv.tag = "Err"
    /\ hist[2].op = "map" /\ hist[2].recv.tag = "Err"

\* C6: unit law: Just(x).flat_map(f) is f(x), Ok(v).flat_map(f) is f(v) and
\* Err(e).flat_map_err(f) is f(e): f is invoked once and its result is not
\* wrapped again.
C6_FlatMapUnit ==
    \A e \in Entries :
        /\ (e.op = "flat_map" /\ e.recv.tag \in {"Just", "Ok"})
               => e.out = Return(e.arg[e.recv.val], 1)
        /\ (e.op = "flat_map_err" /\ e.recv.tag = "Err")
               => e.out = Return(e.arg[e.recv.val], 1)

\* flat_map on a Just gave a Just, and flat_map on that gave Nothing.
C6_Witness ==
    /\ Chained
    /\ hist[1].op = "flat_map" /\ hist[1].recv.tag = "Just"
    /\ hist[2].op = "flat_map" /\ hist[2].recv.tag = "Just"
    /\ hist[2].out.val.tag = "Nothing"

\* C7: Just(x).apply(Just(f)) == Just(f(x)); Just(x).apply(nothing) == Nothing;
\* nothing.apply(c) == Nothing, and no function of c is invoked.
C7_MaybeApply ==
    \A e \in Entries :
        (e.op = "apply" /\ IsMaybe(e.recv)) =>
            /\ (e.recv.tag = "Just" /\ e.arg.tag = "Just")
                   => Returned(e, Just(e.arg.val[e.recv.val]), 1)
            /\ (e.recv.tag = "Just" /\ e.arg.tag = "Nothing")
                   => Returned(e, nothing, 0)
            /\ e.recv.tag = "Nothing" => Returned(e, nothing, 0)

\* A Just met a Nothing container, and the Nothing that came out met a
\* container holding a function.
C7_Witness ==
    /\ Chained
    /\ hist[1].op = "apply" /\ hist[1].recv.tag = "Just" /\ hist[1].arg.tag = "Nothing"
    /\ hist[2].op = "apply" /\ hist[2].recv.tag = "Nothing" /\ hist[2].arg.tag = "Just"

\* C8: Just(v).to_result(err) == Ok(v) and nothing.to_result(err) == Err(err);
\* to_maybe of the result is the Maybe started from, and for Nothing it is
\* the singleton itself.
C8_RoundTrip ==
    /\ \A e \in Entries :
           e.op = "to_result" =>
               /\ e.recv.tag = "Just" => Returned(e, Ok(e.recv.val), 0)
               /\ e.recv.tag = "Nothing" => Returned(e, Err(e.arg), 0)
    /\ (Chained /\ hist[1].op = "to_result" /\ hist[2].op = "to_maybe")
           => /\ Returned(hist[2], hist[1].recv, 0)
              /\ hist[1].recv.tag = "Nothing" => hist[2].out.val = nothing

\* nothing went to a Result and back.
C8_Witness ==
    /\ Chained
    /\ hist[1].op = "to_result" /\ hist[1].recv.tag = "Nothing"
    /\ hist[2].op = "to_maybe" /\ hist[2].out.kind = "return"

MapFamily == {"map", "rshift"}

\* C9: functor laws of map and >> on Just, compared with ==:
\* Just(x).map(f) == Just(f(x)), Just(x).map(identity) == Just(x),
\* Just(x).map(f).map(g) == Just(x).map(compose(g, f)), and
\* Just(a) == Just(b) iff a == b.
C9_Functor ==
    /\ \A e \in Entries :
           (e.op \in MapFamily /\ e.recv.tag = "Just") =>
               /\ Returned(e, Just(e.arg[e.recv.val]), 1)
               /\ e.arg = identity => Returned(e, e.recv, 1)
    /\ (/\ Chained
        /\ hist[1].op \in MapFamily /\ hist[1].recv.tag = "Just"
        /\ hist[2].op \in MapFamily)
           => PyEq(hist[2].out.val,
                   map(hist[1].recv, compose(hist[2].arg, hist[1].arg)).val)
    /\ \A a, b \in Val : PyEq(Just(a), Just(b)) <=> a = b

\* Two maps in a row on a Just, the second changing the value again.
C9_Witness ==
    /\ Chained
    /\ hist[1].op = "map" /\ hist[1].recv.tag = "Just"
    /\ hist[2].op = "rshift"
    /\ hist[2].out.val # hist[2].recv
    /\ hist[2].recv # hist[1].recv

-----------------------------------------------------------------------------
(* SpecApply: r0.apply(c1).apply(c2)...apply(cn) *)

InitApply ==
    /\ r0 \in Results
    /\ conts = <<>>
    /\ acur = r0
    /\ acalls = 0
    /\ ChainIdle
    /\ SingletonIdle

\* The next apply of the chain; an exception would end the chain.
ApplyNext ==
    /\ Len(conts) < MaxChain
    /\ IsResult(acur)
    /\ \E c \in ResultContainers :
           LET o == apply(acur, c) IN
               /\ conts' = Append(conts, c)
               /\ acalls' = acalls + o.calls
               /\ acur' = IF o.kind = "return" THEN o.val
                          ELSE [tag |-> "raised", exc |-> o.exc]
    /\ UNCHANGED <<r0, chainVars, singletonVars>>

NextApply == ApplyNext

SpecApply == InitApply /\ [][NextApply]_vars

\* r0, c1, ..., cn in the order they are met.
Met == <<r0>> \o conts

ErrsMet == {i \in DOMAIN Met : Met[i].tag = "Err"}

FirstErr == CHOOSE i \in ErrsMet : \A j \in ErrsMet : i <= j

RECURSIVE ApplyAll(_, _)
\* The functions of the containers cs applied in order to v.
ApplyAll(v, cs) == IF cs = <<>> THEN v ELSE ApplyAll(Head(cs).val[v], Tail(cs))

-----------------------------------------------------------------------------
(* SpecSingleton: callers of Nothing() *)

\* Where a caller is inside Nothing.__new__.
Inside == {"hasattr", "alloc", "store", "return"}

InitSingleton ==
    /\ loaded = FALSE
    /\ instance = 0
    /\ heap = 0
    /\ pc = [t \in Callers |-> "idle"]
    /\ local = [t \in Callers |-> 0]
    /\ got = [t \in Callers |-> 0]
    /\ used = [t \in Callers |-> 0]
    /\ overlap = FALSE
    /\ ChainIdle
    /\ ApplyIdle

\* Mutant: the attribute looked up is never found.
hasattr_neverFound(i) == FALSE

\* hasattr(cls, "_instance")
hasattr(i) == i # 0

\* The module body runs Nothing() once, while it is imported; the class is
\* visible to the other threads only after the import has finished.
MayCall(t) ==
    IF t = Importer THEN ~loaded /\ pc[t] = "idle"
    ELSE loaded /\ pc[t] \in {"idle", "done"}

\* Nothing() is called.
Enter(t) ==
    /\ MayCall(t)
    /\ pc' = [pc EXCEPT ![t] = "hasattr"]
    /\ overlap' = (overlap \/ \E u \in Callers \ {t} : pc[u] \in Inside)
    /\ UNCHANGED <<loaded, instance, heap, local, got, used, chainVars, applyVars>>

\* if not hasattr(cls, "_instance"):
HasAttr(t) ==
    /\ pc[t] = "hasattr"
    /\ pc' = [pc EXCEPT ![t] = IF hasattr(instance) THEN "return" ELSE "alloc"]
    /\ UNCHANGED <<loaded, instance, heap, local, got, used, overlap, chainVars, applyVars>>

\* super(Nothing, cls).__new__(cls)
Alloc(t) ==
    /\ pc[t] = "alloc"
    /\ heap <= NumThreads
    /\ heap' = heap + 1
    /\ local' = [local EXCEPT ![t] = heap + 1]
    /\ pc' = [pc EXCEPT ![t] = "store"]
    /\ UNCHANGED <<loaded, instance, got, used, overlap, chainVars, applyVars>>

\* cls._instance = ...
Store(t) ==
    /\ pc[t] = "store"
    /\ instance' = local[t]
    /\ local' = [local EXCEPT ![t] = 0]
    /\ pc' = [pc EXCEPT ![t] = "return"]
    /\ UNCHANGED <<loaded, heap, got, used, overlap, chainVars, applyVars>>

\* return cls._instance; for the import, nothing is bound and the import ends.
ReturnInstance(t) ==
    /\ pc[t] = "return"
    /\ got' = [got EXCEPT ![t] = instance]
    /\ pc' = [pc EXCEPT ![t] = "done"]
    /\ loaded' = (loaded \/ t = Importer)
    /\ UNCHANGED <<instance, heap, local, used, overlap, chainVars, applyVars>>

\* What the methods that hand out a Nothing return, called with the object a
\* thread got from Nothing().
NothingsFrom(self) ==
    {Nothing_map(self, identity).val,
     Nothing_flat_map(self, identity).val,
     Nothing_apply(self, Just(identity)).val,
     Just_apply(Just(PyInt(0)), self).val,
     Err_to_maybe(Err(PyInt(0))).val}

\* A thread calls one of those methods.
Use(t) ==
    /\ t \in Threads
    /\ pc[t] = "done"
    /\ got[t] # 0
    /\ \E x \in NothingsFrom(NothingObj(got[t])) : used' = [used EXCEPT ![t] = x.id]
    /\ UNCHANGED <<loaded, instance, heap, pc, local, got, overlap, chainVars, applyVars>>

NextSingleton ==
    \E t \in Callers :
        \/ Enter(t)
        \/ HasAttr(t)
        \/ Alloc(t)
        \/ Store(t)
        \/ ReturnInstance(t)
        \/ Use(t)

SpecSingleton == InitSingleton /\ [][NextSingleton]_vars

\* C5: at most one Nothing instance ever exists: whatever the interleaving of
\* the callers, every Nothing() returns the object the module binds to
\* nothing, and so do Err.to_maybe, Nothing.map / flat_map / apply and
\* Just(x).apply(nothing).
C5_Singleton ==
    /\ heap <= 1
    /\ \A t \in Callers :
           /\ got[t] # 0 => got[t] = nothing.id
           /\ used[t] # 0 => used[t] = nothing.id
    /\ loaded => got[Importer] = nothing.id

\* Two threads were inside Nothing() at once, both have their object and
\* both have called a method on it.
C5_Witness ==
    /\ overlap
    /\ \E t, u \in Threads :
           /\ t # u
           /\ pc[t] = "done" /\ pc[u] = "done"
           /\ used[t] # 0 /\ used[u] # 0

====
